---- MODULE Spec2Model ----
(***************************************************************************)
(* Model of barmaid.c: the chunked magic-sequence scanner, the padding     *)
(* skipper, the signature check, the BTW layout parser, the PNG heuristic, *)
(* the range extractor and main from its "Parse file" step on.             *)
(*                                                                         *)
(* A FILE* is modelled by its contents (a sequence of bytes 0..255) and    *)
(* its cursor (a 0-based offset).  Every C function is an operator that    *)
(* takes the contents and the cursor and returns its C result together     *)
(* with the cursor it leaves behind.  Local arrays that the C code reads   *)
(* before writing them are filled with a byte g chosen by the caller of    *)
(* the operator (any value the stack may hold).                            *)
(*                                                                         *)
(* Offsets are C "long" (64 bit); the model keeps every offset below 2^31  *)
(* by bounding the streams, so no wrap-around of long is reachable.        *)
(***************************************************************************)
EXTENDS Integers, Sequences, FiniteSets, TLC

VARIABLES stream, cursor, pc, op, ret, b, out, written

vars == <<stream, cursor, pc, op, ret, b, out, written>>

(***************************************************************************)
(* Program constants                                                       *)
(***************************************************************************)

\* Chunk size of the scanner and the extractor.  barmaid.c sets 8192; the
\* model scales it down (keeping BUFF_SIZ > LONGEST_MAGIC_STRING) so that
\* streams of several chunks can be enumerated.
BUFF_SIZ == 40

LONGEST_MAGIC_STRING == 32

barmaid_start_mseq_png ==
  <<137, 80, 78, 71, 13, 10, 26, 10, 0, 0, 0, 13, 73, 72, 68, 82>>

barmaid_end_mseq_png == <<0, 0, 0, 0, 73, 69, 78, 68, 174, 66, 96, 130>>

barmaid_btw_mseq_sof ==
  <<13, 10, 66, 97, 114, 32, 84, 101, 110, 100, 101, 114, 32,
    70, 111, 114, 109, 97, 116, 32, 70, 105, 108, 101, 13, 10>>

barmaid_btw_end_of_meta == <<255, 254, 255, 0>>

barmaid_btw_zlib == <<0, 1>>

(***************************************************************************)
(* stdio on a regular file                                                 *)
(***************************************************************************)

min(x, y) == IF x < y THEN x ELSE y

\* fread(buf, 1, n, fil) at cursor pos: the bytes delivered (possibly fewer
\* than n, none at or past end of file).  The cursor advances by their count.
fread(data, pos, n) ==
  IF pos >= Len(data) \/ n <= 0 THEN <<>>
  ELSE SubSeq(data, pos + 1, min(pos + n, Len(data)))

\* fseek(fil, offset, SEEK_SET): fails (cursor unchanged) on a negative
\* offset, succeeds on any other, also past end of file.
fseek(pos, offset) == IF offset < 0 THEN pos ELSE offset

\* memcpy of src into buf at 0-based index at (the part that fits).
Store(buf, at, src) ==
  [k \in 1..Len(buf) |->
     IF k > at /\ k <= at + Len(src) THEN src[k - at] ELSE buf[k]]

\* memcmp(&buf[at], seq, Len(seq)) == 0, at a 0-based index.
memcmp0(buf, at, seq) ==
  \A j \in 1..Len(seq) : buf[at + j] = seq[j]

Fill(n, c) == [k \in 1..n |-> c]

SetMin(S) == CHOOSE x \in S : \A y \in S : x <= y

(***************************************************************************)
(* barmaid_skip_padding                                                    *)
(***************************************************************************)

\* The while(1) loop: buff keeps what earlier iterations left in it.
RECURSIVE skip_padding_loop(_, _, _)

\* Mutant: only the first byte of the word is tested.
skip_padding_first_byte(data, pos, buff) ==
  LET got   == fread(data, pos, 4)
      buff2 == Store(buff, 0, got)
  IN  IF Len(got) = 0
        THEN [ret |-> -1, pos |-> pos]
        ELSE IF buff2[1] # 0
          THEN [ret |-> pos, pos |-> pos]
          ELSE skip_padding_loop(data, pos + Len(got), buff2)

\* Mutant: the cursor is not set back to the start of the non-zero word.
skip_padding_no_rewind(data, pos, buff) ==
  LET cur_pos == pos
      got     == fread(data, pos, 4)
      buff2   == Store(buff, 0, got)
  IN  IF Len(got) = 0
        THEN [ret |-> -1, pos |-> cur_pos]
        ELSE IF \E k \in 1..4 : buff2[k] # 0
          THEN [ret |-> cur_pos, pos |-> pos + Len(got)]
          ELSE skip_padding_loop(data, pos + Len(got), buff2)

skip_padding_loop(data, pos, buff) ==
  LET cur_pos == pos
      got     == fread(data, pos, 4)
      buff2   == Store(buff, 0, got)
  IN  IF Len(got) = 0
        THEN [ret |-> -1, pos |-> cur_pos]
        ELSE IF \E k \in 1..4 : buff2[k] # 0
          THEN [ret |-> cur_pos, pos |-> cur_pos]
          ELSE skip_padding_loop(data, pos + Len(got), buff2)

\* fseek to a non-negative offset of a regular file does not fail, so the
\* -2 return is not reachable; a negative offset skips the seek.
barmaid_skip_padding(data, pos, offset, g) ==
  skip_padding_loop(data, IF offset >= 0 THEN fseek(pos, offset) ELSE pos,
                    Fill(4, g))

(***************************************************************************)
(* barmaid_find_seq                                                        *)
(***************************************************************************)

\* search_buff followed by the stack bytes a memcmp starting at the last
\* candidate positions runs into (they are never written by the function).
SearchMemLen == BUFF_SIZ + LONGEST_MAGIC_STRING + LONGEST_MAGIC_STRING

\* One iteration of the while loop and, if nothing matches, the next one.
RECURSIVE find_seq_loop(_, _, _, _, _, _)
find_seq_loop(data, pos, offset, seq, search_buff, chunk_count) ==
  LET chunk == fread(data, pos, BUFF_SIZ)
      read  == Len(chunk)
      buf1  == Store(search_buff, LONGEST_MAGIC_STRING, chunk)
      buf2  == IF chunk_count # 0
                 THEN Store(buf1, 0,
                            SubSeq(buf1, BUFF_SIZ + 1,
                                   BUFF_SIZ + LONGEST_MAGIC_STRING))
                 ELSE buf1
      i0    == IF chunk_count # 0 THEN 0 - LONGEST_MAGIC_STRING ELSE 0
      hits  == {i \in i0..(read - 1) :
                  memcmp0(buf2, LONGEST_MAGIC_STRING + i, seq)}
  IN  IF read = 0
        THEN [ret |-> -1, pos |-> pos]
        ELSE IF hits # {}
          THEN LET p == offset + SetMin(hits) + chunk_count * BUFF_SIZ
               IN  [ret |-> p, pos |-> fseek(pos + read, p)]
          ELSE find_seq_loop(data, pos + read, offset, seq, buf2,
                             chunk_count + 1)

\* fil is never NULL here (main opens it first) and the seek to a
\* non-negative offset does not fail, so -2 and -3 are not reachable.
barmaid_find_seq(data, pos, offset, seq, g) ==
  find_seq_loop(data, IF offset >= 0 THEN fseek(pos, offset) ELSE pos,
                offset, seq, Fill(SearchMemLen, g), 0)

(***************************************************************************)
(* barmaid_is_btw                                                          *)
(***************************************************************************)

\* Mutant: the comparison stops one byte before the end of the signature.
is_btw_one_short(data, pos, junk) ==
  LET got  == fread(data, pos, Len(barmaid_btw_mseq_sof))
      buff == Store(junk, 0, got)
  IN  [ret |-> Len(got) # 0
               /\ memcmp0(buff, 0, SubSeq(barmaid_btw_mseq_sof, 1,
                                          Len(barmaid_btw_mseq_sof) - 1)),
       pos |-> pos + Len(got)]

\* junk is what the local buff holds before the read (26 bytes of it are
\* compared); a short read leaves the rest of junk in place.
barmaid_is_btw(data, pos, junk) ==
  LET got  == fread(data, pos, Len(barmaid_btw_mseq_sof))
      buff == Store(junk, 0, got)
  IN  [ret |-> Len(got) # 0 /\ memcmp0(buff, 0, barmaid_btw_mseq_sof),
       pos |-> pos + Len(got)]

(***************************************************************************)
(* barmaid_parse_btw                                                       *)
(***************************************************************************)

\* blobs b = {b.success = false, -1, {-1, -1}, {-1, -1}, false, -1, -1}
NoBlobs ==
  [success |-> FALSE, prefix_end |-> -1, png_start |-> <<-1, -1>>,
   png_end |-> <<-1, -1>>, container_zlib |-> FALSE,
   container_start |-> -1, container_end |-> -1]

\* blobsize <<= 8; blobsize |= byte;  on a uint32_t.
Shl8Or(blobsize, byte) == (blobsize % 16777216) * 256 + byte

\* Mutant: the loop runs three times only (j = 2 .. 0), so one byte of the
\* accumulator's earlier value stays in.
Decode_short_loop(blobsize, buff) ==
  Shl8Or(Shl8Or(Shl8Or(blobsize, buff[3]), buff[2]), buff[1])

\* for(j = 3; j >= 0; j--) { blobsize <<= 8; blobsize |= buff[j]; }
Decode(blobsize, buff) ==
  Shl8Or(Shl8Or(Shl8Or(Shl8Or(blobsize, buff[4]), buff[3]), buff[2]), buff[1])

\* "End of container" and the final test, lines 375-386.
parse_tail(data, pos, bb, stat_ok) ==
  IF ~stat_ok
    THEN [b |-> bb, pos |-> pos]
    ELSE LET b2 == [bb EXCEPT !.container_end = Len(data)]
         IN  IF b2.container_start <= 0 \/ b2.container_end <= 0
               THEN [b |-> b2, pos |-> pos]
               ELSE [b |-> [b2 EXCEPT !.success = TRUE], pos |-> pos]

\* Mutant: container_start is advanced by sizeof(buff), not by the length
\* of the compression marker.
parse_container_skips_buff(data, pos, bb, start_of_blobsize, buff, stat_ok) ==
  LET b1    == [bb EXCEPT !.container_start = start_of_blobsize]
      got   == fread(data, pos, 2)
      buff2 == Store(buff, 0, got)
      pos2  == pos + Len(got)
  IN  IF Len(got) # 2
        THEN [b |-> b1, pos |-> pos2]
        ELSE IF memcmp0(buff2, 0, barmaid_btw_zlib)
          THEN parse_tail(data, pos2,
                 [b1 EXCEPT !.container_start = @ + Len(buff),
                            !.container_zlib = TRUE], stat_ok)
          ELSE parse_tail(data, pos2, b1, stat_ok)

\* Mutant: the two peeked bytes are consumed whatever they are.
parse_container_consumes_peek(data, pos, bb, start_of_blobsize, buff, stat_ok) ==
  LET b1    == [bb EXCEPT !.container_start = start_of_blobsize]
      got   == fread(data, pos, 2)
      buff2 == Store(buff, 0, got)
      pos2  == pos + Len(got)
      b2    == [b1 EXCEPT !.container_start = @ + Len(barmaid_btw_zlib)]
  IN  IF Len(got) # 2
        THEN [b |-> b1, pos |-> pos2]
        ELSE IF memcmp0(buff2, 0, barmaid_btw_zlib)
          THEN parse_tail(data, pos2, [b2 EXCEPT !.container_zlib = TRUE],
                          stat_ok)
          ELSE parse_tail(data, pos2, b2, stat_ok)

\* Mutant: neither the peek nor the final test makes the parse fail.
parse_container_unguarded(data, pos, bb, start_of_blobsize, buff, stat_ok) ==
  LET b1    == [bb EXCEPT !.container_start = start_of_blobsize]
      got   == fread(data, pos, 2)
      buff2 == Store(buff, 0, got)
      zlib  == Len(got) = 2 /\ memcmp0(buff2, 0, barmaid_btw_zlib)
  IN  [b |-> [b1 EXCEPT !.container_zlib = zlib,
                        !.container_start =
                           IF zlib THEN @ + Len(barmaid_btw_zlib) ELSE @,
                        !.container_end = Len(data),
                        !.success = TRUE],
       pos |-> pos + Len(got)]

\* "Start of container", lines 365-373.
parse_container(data, pos, bb, start_of_blobsize, buff, stat_ok) ==
  LET b1    == [bb EXCEPT !.container_start = start_of_blobsize]
      got   == fread(data, pos, 2)
      buff2 == Store(buff, 0, got)
      pos2  == pos + Len(got)
  IN  IF Len(got) # 2
        THEN [b |-> b1, pos |-> pos2]
        ELSE IF memcmp0(buff2, 0, barmaid_btw_zlib)
          THEN parse_tail(data, pos2,
                 [b1 EXCEPT !.container_start = @ + Len(barmaid_btw_zlib),
                            !.container_zlib = TRUE], stat_ok)
          ELSE parse_tail(data, pos2, b1, stat_ok)

\* The loop over the two PNG images, lines 346-363; i is 1 or 2 here.
RECURSIVE parse_images(_, _, _, _, _, _, _, _, _)

\* Mutant: a length field read in part ends the layout there, with the
\* image and an empty container running to the end of the stream.
parse_images_stops_early(data, pos, bb, start_of_blobsize, buff, blobsize, i, g, stat_ok) ==
  IF i > 2
    THEN parse_container(data, pos, bb, start_of_blobsize, buff, stat_ok)
    ELSE
      LET pos1  == fseek(pos, start_of_blobsize)
          got   == fread(data, pos1, 4)
          buff2 == Store(buff, 0, got)
          size  == Decode(blobsize, buff2)
          pstart == start_of_blobsize + 4
          pend  == pstart + size
          b1    == [bb EXCEPT !.png_start[i] = pstart, !.png_end[i] = pend]
          sk    == barmaid_skip_padding(data, pos1 + Len(got), pend, g)
      IN  IF Len(got) = 0
            THEN [b |-> bb, pos |-> pos1]
            ELSE IF Len(got) < 4
              THEN parse_tail(data, pos1 + Len(got),
                              [b1 EXCEPT !.container_start = Len(data)],
                              stat_ok)
              ELSE parse_images(data, sk.pos, b1, sk.ret, buff2, size,
                                i + 1, g, stat_ok)

parse_images(data, pos, bb, start_of_blobsize, buff, blobsize, i, g, stat_ok) ==
  IF i > 2
    THEN parse_container(data, pos, bb, start_of_blobsize, buff, stat_ok)
    ELSE
      LET pos1  == fseek(pos, start_of_blobsize)
          got   == fread(data, pos1, 4)
          buff2 == Store(buff, 0, got)
          size  == Decode(blobsize, buff2)
          pstart == start_of_blobsize + 4
          pend  == pstart + size
          b1    == [bb EXCEPT !.png_start[i] = pstart, !.png_end[i] = pend]
          sk    == barmaid_skip_padding(data, pos1 + Len(got), pend, g)
      IN  IF Len(got) = 0
            THEN [b |-> bb, pos |-> pos1]
            ELSE parse_images(data, sk.pos, b1, sk.ret, buff2, size, i + 1,
                              g, stat_ok)

\* g fills the uninitialised locals, junk is the uninitialised buffer of
\* barmaid_is_btw, stat_ok says that fileno is non-zero and fstat succeeds.
barmaid_parse_btw(data, pos, g, junk, stat_ok) ==
  LET sig   == barmaid_is_btw(data, pos, junk)
      found == barmaid_find_seq(data, sig.pos, Len(barmaid_btw_mseq_sof),
                                barmaid_btw_end_of_meta, g)
      sk    == barmaid_skip_padding(data, found.pos,
                 found.ret + Len(barmaid_btw_end_of_meta), g)
  IN  IF ~sig.ret
        THEN [b |-> NoBlobs, pos |-> sig.pos]
        ELSE IF found.ret < 0
          THEN [b |-> NoBlobs, pos |-> found.pos]
          ELSE parse_images(data, sk.pos,
                            [NoBlobs EXCEPT !.prefix_end = sk.ret],
                            sk.ret, Fill(4, g), 0, 1, g, stat_ok)

(***************************************************************************)
(* barmaid_heuristic_png                                                   *)
(***************************************************************************)

RECURSIVE heuristic_loop(_, _, _, _, _, _)
heuristic_loop(data, pos, bb, offset, i, g) ==
  IF i > 2
    THEN [b |-> [bb EXCEPT !.success = TRUE], pos |-> pos]
    ELSE
      LET s  == barmaid_find_seq(data, pos, offset, barmaid_start_mseq_png, g)
          b1 == [bb EXCEPT !.png_start[i] = s.ret]
          e  == barmaid_find_seq(data, s.pos, s.ret, barmaid_end_mseq_png, g)
          b2 == [b1 EXCEPT !.png_end[i] = e.ret]
          b3 == [b1 EXCEPT !.png_end[i] = e.ret + Len(barmaid_end_mseq_png)]
      IN  IF s.ret < 0 THEN [b |-> b1, pos |-> s.pos]
          ELSE IF e.ret < 0 THEN [b |-> b2, pos |-> e.pos]
          ELSE heuristic_loop(data, e.pos, b3, b3.png_end[i], i + 1, g)

barmaid_heuristic_png(data, pos, g) ==
  heuristic_loop(data, pos, NoBlobs, 0, 1, g)

(***************************************************************************)
(* barmaid_dump_file                                                       *)
(***************************************************************************)

\* fwrite at offset at of a file holding dst: overwrite, extending the file.
WriteAt(dst, at, bytes) ==
  [k \in 1..(IF at + Len(bytes) > Len(dst) THEN at + Len(bytes) ELSE Len(dst))
     |-> IF k > at /\ k <= at + Len(bytes) THEN bytes[k - at] ELSE dst[k]]

\* The copy loop; i is the loop counter (the bytes written so far, until
\* the last chunk takes it past size), room the number of bytes the
\* destination still accepts before a write comes back short (negative: it
\* accepts everything).
RECURSIVE dump_loop(_, _, _, _, _, _)

\* Mutant: every chunk is a full buffer, also the last one.
dump_loop_full_chunks(data, pos, size, i, dst, room) ==
  IF i >= size
    THEN [ret |-> TRUE, pos |-> pos, out |-> dst, written |-> size]
    ELSE
      LET chunk == BUFF_SIZ
          got   == fread(data, pos, chunk)
          put   == IF room < 0 THEN got
                   ELSE SubSeq(got, 1, min(Len(got), room))
      IN  IF Len(got) # chunk
            THEN [ret |-> FALSE, pos |-> pos + Len(got), out |-> dst,
                  written |-> i]
            ELSE IF Len(put) # chunk
              THEN [ret |-> FALSE, pos |-> pos + Len(got),
                    out |-> WriteAt(dst, i, put), written |-> i + Len(put)]
              ELSE dump_loop(data, pos + chunk, size, i + BUFF_SIZ,
                             WriteAt(dst, i, put),
                             IF room < 0 THEN room ELSE room - chunk)

\* Mutant: what was read is written before the read is checked.
dump_loop_writes_first(data, pos, size, i, dst, room) ==
  IF i >= size
    THEN [ret |-> TRUE, pos |-> pos, out |-> dst, written |-> size]
    ELSE
      LET chunk == min(size - i, BUFF_SIZ)
          got   == fread(data, pos, chunk)
          put   == IF room < 0 THEN got
                   ELSE SubSeq(got, 1, min(Len(got), room))
      IN  IF Len(put) # chunk \/ Len(got) # chunk
            THEN [ret |-> FALSE, pos |-> pos + Len(got),
                  out |-> WriteAt(dst, i, put), written |-> i + Len(put)]
            ELSE dump_loop(data, pos + chunk, size, i + BUFF_SIZ,
                           WriteAt(dst, i, put),
                           IF room < 0 THEN room ELSE room - chunk)

dump_loop(data, pos, size, i, dst, room) ==
  IF i >= size
    THEN [ret |-> TRUE, pos |-> pos, out |-> dst, written |-> size]
    ELSE
      LET chunk == min(size - i, BUFF_SIZ)
          got   == fread(data, pos, chunk)
          put   == IF room < 0 THEN got
                   ELSE SubSeq(got, 1, min(Len(got), room))
      IN  IF Len(got) # chunk
            THEN [ret |-> FALSE, pos |-> pos + Len(got), out |-> dst,
                  written |-> i]
            ELSE IF Len(put) # chunk
              THEN [ret |-> FALSE, pos |-> pos + Len(got),
                    out |-> WriteAt(dst, i, put), written |-> i + Len(put)]
              ELSE dump_loop(data, pos + chunk, size, i + BUFF_SIZ,
                             WriteAt(dst, i, put),
                             IF room < 0 THEN room ELSE room - chunk)

\* start <= end is what main passes (ranges of a successful layout), so the
\* size_t difference does not wrap.
barmaid_dump_file(data, pos, start, end, dst, room) ==
  dump_loop(data, fseek(pos, start), end - start, 0, dst, room)

(***************************************************************************)
(* The calls made on a stream                                              *)
(***************************************************************************)

\* Values an uninitialised local byte takes (kept below 128: see Decode).
GarbageBytes == {0, 1, 85}

\* What the last call was given.  from is the cursor it started at, dst
\* what the destination file held.
NoOp ==
  [name |-> "none", from |-> 0, offset |-> 0, seq |-> <<>>, g |-> 0,
   junk |-> <<>>, stat_ok |-> TRUE, start |-> 0, end |-> 0, room |-> 0,
   dst |-> <<>>]

Idle(data, dst) ==
  /\ stream = data
  /\ cursor = 0
  /\ pc = "start"
  /\ op = NoOp
  /\ ret = 0
  /\ b = NoBlobs
  /\ out = dst
  /\ written = 0

(***************************************************************************)
(* Padding skipper: every stream over PadBytes up to MaxPadLen bytes       *)
(***************************************************************************)

MaxPadLen == 12

PadBytes == {0, 66}

PadStreams == UNION {[1..n -> PadBytes] : n \in 0..MaxPadLen}

InitPad == \E data \in PadStreams : Idle(data, <<>>)

\* The first call on a stream seeks to an offset; a later call is a retry
\* from where the last one left the cursor (a negative offset: no seek).
SkipPadding ==
  \E offset \in (IF pc = "start" THEN 0..(Len(stream) + 1) ELSE {-1}),
     g \in GarbageBytes :
    LET r == barmaid_skip_padding(stream, cursor, offset, g)
    IN  /\ op' = [NoOp EXCEPT !.name = "skip_padding", !.from = cursor,
                              !.offset = offset, !.g = g]
        /\ ret' = r.ret
        /\ cursor' = r.pos
        /\ pc' = "done"
        /\ UNCHANGED <<stream, b, out, written>>

SpecPad == InitPad /\ [][SkipPadding]_vars

(***************************************************************************)
(* Sequence scanner: streams of up to three chunks built around a pattern  *)
(***************************************************************************)

\* A pattern of the longest length allowed, all bytes different.
LongPattern == [k \in 1..LONGEST_MAGIC_STRING |-> 200 + k]

ScanPatterns ==
  {<<66>>, barmaid_btw_zlib, barmaid_btw_end_of_meta, barmaid_end_mseq_png,
   barmaid_start_mseq_png, LongPattern}

FillerBytes == {0, 120}

\* n filler bytes with piece written at 0-based offset p.
Planted(n, f, p, piece) == Store(Fill(n, f), p, piece)

\* The ways to cut a pattern of length n in two: how many bytes go first.
Cuts(n) == {a \in 0..n : a <= 3 \/ a >= n - 2 \/ a = n \div 2}

\* The pattern at p, followed by t more bytes: p runs over positions that
\* straddle the first chunk boundary (a bytes before it), and a few others.
WholeStreams(q) ==
  {Planted(p + Len(q) + t, f, p, q) :
     p \in {0, 3} \cup {BUFF_SIZ - a : a \in Cuts(Len(q))}
                  \cup {2 * BUFF_SIZ - 1, 2 * BUFF_SIZ + 2},
     t \in {0, 5, BUFF_SIZ + 7},
     f \in FillerBytes}

\* The first a bytes of the pattern end the stream r bytes into the second
\* chunk; the rest of the pattern lies where it would follow, one chunk
\* earlier.
SplitStreams(q) ==
  {Store(Planted(BUFF_SIZ + r + a, f, BUFF_SIZ + r, SubSeq(q, 1, a)),
         r + a, SubSeq(q, a + 1, Len(q))) :
     a \in Cuts(Len(q)) \ {0, Len(q)}, r \in {0, 2}, f \in FillerBytes}

\* Two full chunks (and e more bytes): the second chunk ends with the first
\* a bytes of the pattern and begins with the rest.
WrapStreams(q) ==
  {Store(Planted(2 * BUFF_SIZ + e, f, 2 * BUFF_SIZ - a, SubSeq(q, 1, a)),
         BUFF_SIZ, SubSeq(q, a + 1, Len(q))) :
     a \in Cuts(Len(q)) \ {0, Len(q)}, e \in {0, 5}, f \in FillerBytes}

\* A short stream that ends with the first a bytes of the pattern.
CutStreams(q) ==
  {Planted(n + a, f, n, SubSeq(q, 1, a)) :
     a \in Cuts(Len(q)) \ {Len(q)}, n \in {0, 3}, f \in FillerBytes}

ScanStreams ==
  UNION {WholeStreams(q) \cup SplitStreams(q) \cup WrapStreams(q)
           \cup CutStreams(q) : q \in ScanPatterns}

ScanOffsets == {0, 3}

InitScan == \E data \in ScanStreams : Idle(data, <<>>)

FindSeq ==
  /\ pc = "start"
  /\ \E offset \in ScanOffsets, seq \in ScanPatterns, g \in {0, 1} :
       LET r == barmaid_find_seq(stream, cursor, offset, seq, g)
       IN  /\ op' = [NoOp EXCEPT !.name = "find_seq", !.from = cursor,
                                 !.offset = offset, !.seq = seq, !.g = g]
           /\ ret' = r.ret
           /\ cursor' = r.pos
           /\ pc' = "done"
           /\ UNCHANGED <<stream, b, out, written>>

SpecScan == InitScan /\ [][FindSeq]_vars

(***************************************************************************)
(* Layout parser and heuristic: streams laid out like a BTW file, with     *)
(* variations (damaged signature, missing marker, wrong lengths, cut tail) *)
(***************************************************************************)

\* n as the 4 bytes of a little-endian length field.
Le32(n) ==
  <<n % 256, (n \div 256) % 256, (n \div 65536) % 256,
    (n \div 16777216) % 256>>

\* A minimal blob framed by the two PNG markers.
PngBlob == barmaid_start_mseq_png \o <<5, 5>> \o barmaid_end_mseq_png

\* signature, metadata, marker, then twice (padding, length, blob), then
\* padding and the container.
BtwStream(head, meta, eom, pads, blobs, lens, cont) ==
  head \o meta \o eom
    \o Fill(pads[1], 0) \o Le32(lens[1]) \o blobs[1]
    \o Fill(pads[2], 0) \o Le32(lens[2]) \o blobs[2]
    \o Fill(pads[3], 0) \o cont

DropLast(s, k) == SubSeq(s, 1, IF k < Len(s) THEN Len(s) - k ELSE 0)

\* The largest number of bytes cut off the end of a stream.
MaxDrop == 5

MetaLens == {3, BUFF_SIZ - 2, BUFF_SIZ + 5}

PadCombos == {<<0, 0, 0>>, <<4, 4, 4>>, <<8, 0, 4>>}

BlobCombos ==
  {<<<<>>, <<>>>>, <<<<7, 7, 7>>, <<7, 7, 7, 7, 7>>>>,
   <<<<7, 7, 7>>, PngBlob>>, <<PngBlob, PngBlob>>}

\* The length fields written for blobs bl: right, first or second too
\* large, first too small.
Lies == {"none", "first_large", "second_large", "first_small"}

LenFields(bl, lie) ==
  CASE lie = "none"         -> <<Len(bl[1]), Len(bl[2])>>
    [] lie = "first_large"  -> <<Len(bl[1]) + 100, Len(bl[2])>>
    [] lie = "second_large" -> <<Len(bl[1]), Len(bl[2]) + 100>>
    [] lie = "first_small"  -> <<Len(bl[1]) \div 2, Len(bl[2])>>

Containers == {<<0, 1, 9, 9>>, <<9, 9, 9>>, <<0, 1>>, <<>>}

\* Streams that start with the signature.
SignedStreams ==
  {DropLast(BtwStream(barmaid_btw_mseq_sof, Fill(m, 77), eom, pads, bl,
                      LenFields(bl, lie), cont), k) :
     m \in MetaLens, eom \in {barmaid_btw_end_of_meta}, pads \in PadCombos,
     bl \in BlobCombos, lie \in Lies, cont \in Containers,
     k \in 0..MaxDrop}

\* The signature with its last byte changed, cut short, or missing.
BadHeads ==
  {[barmaid_btw_mseq_sof EXCEPT ![Len(barmaid_btw_mseq_sof)] = 11],
   SubSeq(barmaid_btw_mseq_sof, 1, 25), <<>>}

UnsignedStreams ==
  {BtwStream(head, Fill(3, 77), barmaid_btw_end_of_meta, <<4, 4, 4>>, bl,
             <<Len(bl[1]), Len(bl[2])>>, <<0, 1, 9, 9>>) :
     head \in BadHeads, bl \in BlobCombos}
  \cup {SubSeq(barmaid_btw_mseq_sof, 1, n) :
          n \in 0..Len(barmaid_btw_mseq_sof)}

\* The signature, but no end-of-metadata marker.
UnmarkedStreams ==
  {BtwStream(barmaid_btw_mseq_sof, Fill(3, 77), <<>>, <<4, 4, 4>>, bl,
             <<Len(bl[1]), Len(bl[2])>>, <<0, 1, 9, 9>>) :
     bl \in BlobCombos}

ParseStreams == SignedStreams \cup UnsignedStreams \cup UnmarkedStreams

\* What the locals hold and whether the size query works: <<g, junk,
\* stat_ok>>.  junk is either filled with g or a stale copy of the signature.
ParseEnvs ==
  {<<0, Fill(Len(barmaid_btw_mseq_sof), 0), TRUE>>,
   <<85, Fill(Len(barmaid_btw_mseq_sof), 85), TRUE>>,
   <<0, barmaid_btw_mseq_sof, TRUE>>,
   <<0, Fill(Len(barmaid_btw_mseq_sof), 0), FALSE>>}

InitParse == \E data \in ParseStreams : Idle(data, <<>>)

\* The parser on a freshly opened stream, or once more on the stream as the
\* first run left it (same environment, except what the stack holds where
\* barmaid_is_btw has its buffer).
ParseBtw ==
  /\ pc \in {"start", "parsed"}
  /\ \E env \in ParseEnvs :
       /\ pc = "parsed" => env[1] = op.g /\ env[3] = op.stat_ok
       /\ LET r == barmaid_parse_btw(stream, cursor, env[1], env[2], env[3])
          IN  /\ op' = [NoOp EXCEPT !.name = "parse_btw", !.from = cursor,
                                    !.g = env[1], !.junk = env[2],
                                    !.stat_ok = env[3]]
              /\ b' = r.b
              /\ cursor' = r.pos
       /\ pc' = IF pc = "start" THEN "parsed" ELSE "done"
       /\ UNCHANGED <<stream, ret, out, written>>

HeuristicPng ==
  /\ pc = "start"
  /\ \E g \in {0, 85} :
       LET r == barmaid_heuristic_png(stream, cursor, g)
       IN  /\ op' = [NoOp EXCEPT !.name = "heuristic_png", !.from = cursor,
                                 !.g = g]
           /\ b' = r.b
           /\ cursor' = r.pos
           /\ pc' = "done"
           /\ UNCHANGED <<stream, ret, out, written>>

SpecParse == InitParse /\ [][ParseBtw \/ HeuristicPng]_vars

(***************************************************************************)
(* Range extractor: sources of up to two chunks and a bit, every range     *)
(***************************************************************************)

\* A source whose bytes tell their offsets apart.
Source(n) == [k \in 1..n |-> (k * 7) % 251]

SourceLens == {0, 1, 30, BUFF_SIZ, BUFF_SIZ + 1, 2 * BUFF_SIZ + 3}

\* What the destination file holds when it is handed over.
OutInits == {<<>>, Fill(3, 238)}

\* Bytes the destination accepts; -1: no limit.
Rooms == {-1, 0, 5, BUFF_SIZ + 3}

Starts(n) ==
  {s \in 0..(n + 1) : s <= 1 \/ s = 10 \/ s >= n - 1
                        \/ (s >= BUFF_SIZ - 1 /\ s <= BUFF_SIZ + 1)}

Ends(n, s) == (s..(n + 2)) \cup {n + BUFF_SIZ + 2}

InitDump ==
  \E n \in SourceLens, dst \in OutInits : Idle(Source(n), dst)

DumpFile ==
  /\ pc = "start"
  /\ \E start \in Starts(Len(stream)), room \in Rooms :
       \E end \in Ends(Len(stream), start) :
         LET r == barmaid_dump_file(stream, cursor, start, end, out, room)
         IN  /\ op' = [NoOp EXCEPT !.name = "dump_file", !.from = cursor,
                                   !.start = start, !.end = end,
                                   !.room = room, !.dst = out]
             /\ ret' = IF r.ret THEN 1 ELSE 0
             /\ cursor' = r.pos
             /\ out' = r.out
             /\ written' = r.written
             /\ pc' = "done"
             /\ UNCHANGED <<stream, b>>

SpecDump == InitDump /\ [][DumpFile]_vars

(***************************************************************************)
(* Properties of the sequence scanner (checked under SpecScan)             *)
(***************************************************************************)

\* seq occurs in data at 0-based offset p, wholly inside the stream.
Occurs(data, p, seq) ==
  /\ p >= 0
  /\ p + Len(seq) <= Len(data)
  /\ \A j \in 1..Len(seq) : data[p + j] = seq[j]

Occurrences(data, from, seq) ==
  {p \in from..(Len(data) - Len(seq)) : Occurs(data, p, seq)}

FirstOccurrence(data, from, seq) ==
  IF Occurrences(data, from, seq) = {} THEN -1
  ELSE SetMin(Occurrences(data, from, seq))

\* The occurrence at p has bytes in two chunks of a scan started at offset.
Straddles(p, offset, seq) ==
  (p - offset) \div BUFF_SIZ # (p + Len(seq) - 1 - offset) \div BUFF_SIZ

\* The last call searched with locals whose uninitialised bytes are not
\* bytes of the pattern: what the stack held cannot take part in a match.
CleanScan ==
  /\ op.name = "find_seq"
  /\ \A j \in 1..Len(op.seq) : op.seq[j] # op.g

\* C1: barmaid_find_seq returns the smallest offset at or after the starting
\* offset at which the pattern occurs, or -1 if there is none.  (Stated for
\* the calls in which the uninitialised bytes cannot match.)
C1_FindSeqFirstOccurrence ==
  CleanScan => ret = FirstOccurrence(stream, op.offset, op.seq)

\* C2: when the only occurrence of the pattern straddles a chunk boundary
\* of the scan, barmaid_find_seq returns its offset, however long the stream
\* goes on after it.  (Stated for the calls in which the uninitialised bytes
\* cannot match.)
C2_FindSeqStraddle ==
  \A p \in 0..Len(stream) :
    (/\ CleanScan
     /\ Occurrences(stream, 0, op.seq) = {p}
     /\ p >= op.offset
     /\ Straddles(p, op.offset, op.seq))
    => ret = p

\* C3: a non-negative result of barmaid_find_seq is the offset of an
\* occurrence of the pattern that lies wholly inside the stream (so -1 is
\* returned when the pattern is absent).  (Stated for the calls in which the
\* uninitialised bytes cannot match: the bytes that match are bytes that
\* earlier chunks left in the search buffer.)
C3_FindSeqNoFalseOffset ==
  (CleanScan /\ ret >= 0) => Occurs(stream, ret, op.seq)

(***************************************************************************)
(* Properties of the layout parser (checked under SpecParse)               *)
(***************************************************************************)

\* C4: a successful layout is ordered, prefix_end <= png_start[0] <=
\* png_end[0] <= png_start[1] <= png_end[1] <= container_start <=
\* container_end, and container_end is the length of the stream.
C4_LayoutOrdered ==
  (op.name = "parse_btw" /\ b.success) =>
    /\ b.prefix_end <= b.png_start[1]
    /\ b.png_start[1] <= b.png_end[1]
    /\ b.png_end[1] <= b.png_start[2]
    /\ b.png_start[2] <= b.png_end[2]
    /\ b.png_end[2] <= b.container_start
    /\ b.container_start <= b.container_end
    /\ b.container_end = Len(stream)

\* A successful parse with two non-empty images, padding between the
\* sections and a compressed container.
C4_Witness ==
  /\ op.name = "parse_btw"
  /\ b.success
  /\ b.container_zlib
  /\ b.png_start[1] < b.png_end[1]
  /\ b.png_end[1] < b.png_start[2] - 4
  /\ b.png_start[2] < b.png_end[2]
  /\ b.container_start < b.container_end

\* C5: running barmaid_parse_btw again on the same stream, in the same
\* environment, gives the layout the first run gave, wherever the first run
\* left the cursor.  (Stated for a first run that succeeded.)
C5_ParseIdempotent ==
  [][(/\ op.name = "parse_btw"
      /\ b.success
      /\ op'.name = "parse_btw"
      /\ op'.g = op.g /\ op'.junk = op.junk /\ op'.stat_ok = op.stat_ok)
     => b' = b]_vars

\* The first 26 bytes of the stream are the start signature.
Signed(data) ==
  /\ Len(data) >= Len(barmaid_btw_mseq_sof)
  /\ SubSeq(data, 1, Len(barmaid_btw_mseq_sof)) = barmaid_btw_mseq_sof

\* C6: on a freshly opened stream whose first 26 bytes are not the start
\* signature (shorter streams included), barmaid_parse_btw fails.
C6_UnsignedRejected ==
  (op.name = "parse_btw" /\ op.from = 0 /\ ~Signed(stream)) => ~b.success

\* An unsigned stream that was rejected although it holds the
\* end-of-metadata marker and two images the heuristic finds.
C6_Witness ==
  /\ op.name = "parse_btw"
  /\ op.from = 0
  /\ ~Signed(stream)
  /\ ~b.success
  /\ Occurrences(stream, 0, barmaid_btw_end_of_meta) # {}
  /\ barmaid_heuristic_png(stream, 0, op.g).b.success

(***************************************************************************)
(* Properties of the padding skipper (checked under SpecPad)               *)
(***************************************************************************)

\* Where the last call of barmaid_skip_padding started reading.
SkipStart == IF op.offset >= 0 THEN op.offset ELSE op.from

\* The offsets s + 4k at which a complete, not all-zero 4-byte word lies.
NonZeroWords(data, s) ==
  {p \in s..(Len(data) - 4) :
     (p - s) % 4 = 0 /\ \E j \in 1..4 : data[p + j] # 0}

\* C7: if some complete word at s + 4k is not all zero, barmaid_skip_padding
\* returns the offset of the first such word.
C7_SkipPaddingFirstWord ==
  (op.name = "skip_padding" /\ NonZeroWords(stream, SkipStart) # {})
    => ret = SetMin(NonZeroWords(stream, SkipStart))

\* 00000000 00000000 00000042 from offset 0: offset 8.
C7_Witness ==
  /\ op.name = "skip_padding"
  /\ op.offset = 0
  /\ stream = <<0, 0, 0, 0, 0, 0, 0, 0, 0, 0, 0, 66>>
  /\ ret = 8

\* C8: if no complete word at s + 4k is non-zero (the words run out with 0
\* to 3 bytes left, whatever they are), barmaid_skip_padding returns -1.
\* (Stated for the calls whose uninitialised buffer happens to hold zeros.)
C8_SkipPaddingShortTail ==
  (/\ op.name = "skip_padding"
   /\ op.g = 0
   /\ NonZeroWords(stream, SkipStart) = {})
  => ret = -1

\* C18: after barmaid_skip_padding has returned an offset p >= 0 the cursor
\* is p; after it has returned not-found the cursor is where the read that
\* got nothing began: the end of the stream, or the starting offset if
\* that lies beyond it.
C18_SkipPaddingCursor ==
  op.name = "skip_padding" =>
    /\ ret >= 0 => cursor = ret
    /\ ret < 0 =>
         cursor = (IF SkipStart > Len(stream) THEN SkipStart
                   ELSE Len(stream))

\* Six zero bytes read into a zeroed buffer from offset 0: a word, then 2
\* bytes, then a read of nothing at offset 6, where the cursor stays.
C18_Witness ==
  /\ op.name = "skip_padding"
  /\ op.offset = 0
  /\ op.g = 0
  /\ stream = <<0, 0, 0, 0, 0, 0>>
  /\ ret = -1
  /\ cursor = 6

(***************************************************************************)
(* Properties of the range extractor (checked under SpecDump)              *)
(***************************************************************************)

\* The destination holds its first n bytes from the source at start, and
\* is otherwise as it was handed over.
Copied(n) ==
  /\ Len(out) = (IF n > Len(op.dst) THEN n ELSE Len(op.dst))
  /\ \A k \in 1..Len(out) :
       out[k] = IF k <= n THEN stream[op.start + k] ELSE op.dst[k]

\* C9: for 0 <= start <= end <= source length (and a destination that
\* accepts the bytes), barmaid_dump_file returns true and has written
\* exactly the end - start source bytes from start on at offset 0.
C9_DumpCopiesRange ==
  (/\ op.name = "dump_file"
   /\ op.start <= op.end
   /\ op.end <= Len(stream)
   /\ (op.room < 0 \/ op.room >= op.end - op.start))
  => /\ ret = 1
     /\ written = op.end - op.start
     /\ Copied(op.end - op.start)

\* A range longer than one chunk, not starting at 0, copied in full.
C9_Witness ==
  /\ op.name = "dump_file"
  /\ op.start > 0
  /\ op.end - op.start > BUFF_SIZ
  /\ op.end <= Len(stream)
  /\ ret = 1
  /\ written = op.end - op.start

\* The source bytes there are from start on.
Available == IF op.start < Len(stream) THEN Len(stream) - op.start ELSE 0

\* What C10 says of the result: false, and the destination has received
\* bytes of the chunks read in full only (all of them if it accepts them);
\* the chunk read short is not written.
FailedShort ==
  /\ ret = 0
  /\ written <= (Available \div BUFF_SIZ) * BUFF_SIZ
  /\ op.room < 0 => written = (Available \div BUFF_SIZ) * BUFF_SIZ
  /\ Copied(written)

\* C10 as stated: for every range [start, end) whose end exceeds the source
\* length, barmaid_dump_file returns false and writes only chunks that were
\* read in full.
C10_DumpShortSourceAnyRange ==
  (op.name = "dump_file" /\ op.start <= op.end /\ op.end > Len(stream))
  => FailedShort

\* C10, amended: the same for every non-empty range [start, end) whose end
\* exceeds the source length (an empty range is copied, with success,
\* wherever it lies).
C10_DumpShortSource ==
  (op.name = "dump_file" /\ op.start < op.end /\ op.end > Len(stream))
  => FailedShort

\* A source that ends inside the second chunk of the range: the first chunk
\* is in the destination, nothing of the second.
C10_Witness ==
  /\ op.name = "dump_file"
  /\ op.end > Len(stream)
  /\ Available > BUFF_SIZ
  /\ Available < 2 * BUFF_SIZ
  /\ ret = 0
  /\ written = BUFF_SIZ

(***************************************************************************)
(* Signature check: the streams of the layout parser, read from offset 0   *)
(***************************************************************************)

\* What the local buff of barmaid_is_btw holds before the read: zeros, some
\* other byte, or the signature an earlier call left on the stack.
SigJunks ==
  {Fill(Len(barmaid_btw_mseq_sof), 0), Fill(Len(barmaid_btw_mseq_sof), 85),
   barmaid_btw_mseq_sof}

InitSig == \E data \in ParseStreams : Idle(data, <<>>)

IsBtw ==
  /\ pc = "start"
  /\ \E junk \in SigJunks :
       LET r == barmaid_is_btw(stream, cursor, junk)
       IN  /\ op' = [NoOp EXCEPT !.name = "is_btw", !.from = cursor,
                                 !.junk = junk]
           /\ ret' = IF r.ret THEN 1 ELSE 0
           /\ cursor' = r.pos
           /\ pc' = "done"
           /\ UNCHANGED <<stream, b, out, written>>

SpecSig == InitSig /\ [][IsBtw]_vars

(***************************************************************************)
(* Properties of the signature check (checked under SpecSig)               *)
(***************************************************************************)

\* C11: barmaid_is_btw returns true only if the 26 bytes at the cursor
\* could be read and are the start signature; when fewer than 26 bytes are
\* there (0 to 25) it returns false, whatever its buffer held before.
C11_IsBtwShortRead ==
  (op.name = "is_btw" /\ ret = 1) =>
    /\ Len(stream) - op.from >= Len(barmaid_btw_mseq_sof)
    /\ Occurs(stream, op.from, barmaid_btw_mseq_sof)

(***************************************************************************)
(* Length fields: well-formed streams whose two length fields run over a   *)
(* set of 4-byte values                                                    *)
(***************************************************************************)

\* The value of the 4 bytes at 0-based offset p, least significant first.
LenAt(data, p) ==
  data[p + 1] + 256 * data[p + 2] + 65536 * data[p + 3]
    + 16777216 * data[p + 4]

\* Length fields of the first image (the image that follows has that many
\* bytes) and of the second one (the image has that many bytes, or 5 where
\* the field says more than 256).  The top byte stays below 127: offsets
\* are kept below 2^31.
FirstFields == {<<2, 0, 0, 0>>, <<3, 0, 0, 0>>, <<0, 1, 0, 0>>}

SecondFields ==
  {<<2, 0, 0, 0>>, <<0, 1, 0, 0>>, <<5, 0, 0, 0>>, <<255, 0, 0, 0>>,
   <<0, 0, 1, 0>>, <<0, 0, 0, 1>>, <<1, 2, 3, 4>>, <<255, 255, 255, 126>>}

LenStreams ==
  {barmaid_btw_mseq_sof \o Fill(3, 77) \o barmaid_btw_end_of_meta
     \o f1 \o Fill(LenAt(f1, 0), 7)
     \o f2 \o Fill(IF LenAt(f2, 0) <= 256 THEN LenAt(f2, 0) ELSE 5, 7)
     \o cont :
     f1 \in FirstFields, f2 \in SecondFields, cont \in Containers}

InitLen == \E data \in LenStreams : Idle(data, <<>>)

SpecLen == InitLen /\ [][ParseBtw]_vars

(***************************************************************************)
(* Properties of the length decoding (checked under SpecLen)               *)
(***************************************************************************)

\* The bytes from 0-based offset from up to offset to are whole words of
\* zero bytes.
ZeroWords(data, from, to) ==
  /\ from <= to
  /\ to <= Len(data)
  /\ (to - from) % 4 = 0
  /\ \A k \in (from + 1)..to : data[k] = 0

\* C12: in each image iteration whose 4 length bytes b0..b3 are all in the
\* stream, the image range is [pos + 4, pos + 4 + length) with pos the
\* offset of the length field and length = b0 + 256*b1 + 65536*b2 +
\* 16777216*b3 of these 4 bytes alone: the first field follows the padding
\* after the prefix, the second the padding after the first image, and
\* the first image's length does not enter the second.
C12_LengthLittleEndian ==
  op.name = "parse_btw" =>
    \A i \in 1..2 :
      /\ b.png_start[i] # -1 => b.png_start[i] >= 4
      /\ (b.png_start[i] >= 4 /\ b.png_start[i] <= Len(stream)) =>
           /\ b.png_end[i]
                = b.png_start[i] + LenAt(stream, b.png_start[i] - 4)
           /\ i = 1 => b.png_start[1] = b.prefix_end + 4
           /\ i = 2 => ZeroWords(stream, b.png_end[1], b.png_start[2] - 4)

\* 02 00 00 00 read as 2 for the first image, then 00 01 00 00 read as 256
\* for the second, in a parse that succeeds.
C12_Witness ==
  /\ op.name = "parse_btw"
  /\ b.success
  /\ SubSeq(stream, b.png_start[1] - 3, b.png_start[1]) = <<2, 0, 0, 0>>
  /\ b.png_end[1] = b.png_start[1] + 2
  /\ SubSeq(stream, b.png_start[2] - 3, b.png_start[2]) = <<0, 1, 0, 0>>
  /\ b.png_end[2] = b.png_start[2] + 256

(***************************************************************************)
(* Properties of the heuristic (checked under SpecParse)                   *)
(***************************************************************************)

\* The four searches of the heuristic as the contract describes them: the
\* first image-start marker, the first image-end marker from there on, the
\* first image-start marker after that marker's end, the first image-end
\* marker from there on; -1 from the first search that finds nothing.
MarkerOffsets(data) ==
  LET s0 == FirstOccurrence(data, 0, barmaid_start_mseq_png)
      e0 == IF s0 < 0 THEN -1
            ELSE FirstOccurrence(data, s0, barmaid_end_mseq_png)
      s1 == IF e0 < 0 THEN -1
            ELSE FirstOccurrence(data, e0 + Len(barmaid_end_mseq_png),
                                 barmaid_start_mseq_png)
      e1 == IF s1 < 0 THEN -1
            ELSE FirstOccurrence(data, s1, barmaid_end_mseq_png)
  IN  <<s0, e0, s1, e1>>

\* C13: barmaid_heuristic_png succeeds exactly when all four searches find
\* their marker, and then reports png_start = {s0, s1} and png_end =
\* {e0 + 12, e1 + 12}.  (Stated for the calls whose uninitialised bytes are
\* not bytes of either marker.)
C13_HeuristicMarkers ==
  (op.name = "heuristic_png" /\ op.g = 85) =>
    LET m == MarkerOffsets(stream)
    IN  /\ b.success <=> m[4] >= 0
        /\ b.success =>
             /\ b.png_start = <<m[1], m[3]>>
             /\ b.png_end = <<m[2] + Len(barmaid_end_mseq_png),
                              m[4] + Len(barmaid_end_mseq_png)>>

(***************************************************************************)
(* Properties of the container detection (checked under SpecParse)         *)
(***************************************************************************)

\* What the padding skipper returned after image i (1 or 2) of the last
\* parse: it was called with the image's end, which the layout records.
SkipperAfter(i) == barmaid_skip_padding(stream, 0, b.png_end[i], op.g).ret

\* C14: with p what the skipper returned after the second image, a
\* successful layout has container_zlib = true and container_start = p + 2
\* if the 2 bytes at p are 00 01, and container_zlib = false and
\* container_start = p otherwise; with fewer than 2 bytes at p (or no p)
\* the parse fails.
C14_ContainerStart ==
  (op.name = "parse_btw" /\ b.png_end[2] >= 0) =>
    LET p == SkipperAfter(2)
    IN  /\ (p < 0 \/ p + 2 > Len(stream)) => ~b.success
        /\ b.success =>
             IF Occurs(stream, p, barmaid_btw_zlib)
               THEN b.container_zlib /\ b.container_start = p + 2
               ELSE ~b.container_zlib /\ b.container_start = p

\* A successful parse of a stream with padding before a container that
\* does not start with the compression marker: it starts at the peeked
\* bytes.
C14_Witness ==
  /\ op.name = "parse_btw"
  /\ b.success
  /\ ~b.container_zlib
  /\ b.container_start > b.png_end[2]
  /\ b.container_start = SkipperAfter(2)
  /\ b.container_start + 2 <= Len(stream)
  /\ ~Occurs(stream, b.container_start, barmaid_btw_zlib)

(***************************************************************************)
(* main, from the "Parse file" step on (the options are read, -e was       *)
(* given and the input file is open).  In this specification op holds the  *)
(* options and what the stack holds, ret is main's status, out maps each   *)
(* output file that main has opened to its contents, and op.calls is the   *)
(* set of layout functions that were called.                               *)
(***************************************************************************)

\* The options: -s, -i and -m, -p, -c.
MainOptions ==
  {[heuristic |-> h, png_str |-> i, prefix_str |-> x[1],
    container_str |-> x[2]] :
     h \in BOOLEAN,
     i \in {<<FALSE, FALSE>>, <<TRUE, FALSE>>, <<TRUE, TRUE>>},
     x \in {<<FALSE, FALSE>>, <<FALSE, TRUE>>, <<TRUE, TRUE>>}}

\* Input files: with the signature or a damaged one, with or without the
\* end-of-metadata marker, every pair of images and every container.
MainStreams ==
  {BtwStream(head, Fill(3, 77), eom, <<4, 4, 4>>, bl,
             <<Len(bl[1]), Len(bl[2])>>, cont) :
     head \in {barmaid_btw_mseq_sof} \cup BadHeads,
     eom \in {barmaid_btw_end_of_meta, <<>>},
     bl \in BlobCombos, cont \in Containers}

InitMain ==
  \E data \in MainStreams, o \in MainOptions, env \in ParseEnvs :
    /\ stream = data
    /\ cursor = 0
    /\ pc = "parse"
    /\ op = [name |-> "main", heuristic |-> o.heuristic,
             png_str |-> o.png_str, prefix_str |-> o.prefix_str,
             container_str |-> o.container_str, g |-> env[1],
             junk |-> env[2], stat_ok |-> env[3], calls |-> {}]
    /\ ret = 0
    /\ b = NoBlobs
    /\ out = <<>>
    /\ written = 0

\* fopen(name, "wb") of the files named: each is created empty.
Opened(files, names) ==
  [f \in (DOMAIN files) \cup names |->
     IF f \in names THEN <<>> ELSE files[f]]

\* Mutant: a failed structured parse is followed by the heuristic scan.
main_parse_falls_back(data, pos, heuristic, g, junk, stat_ok) ==
  LET r == barmaid_parse_btw(data, pos, g, junk, stat_ok)
      h == barmaid_heuristic_png(data, IF heuristic THEN pos ELSE r.pos, g)
  IN  IF heuristic
        THEN [b |-> h.b, pos |-> h.pos, calls |-> {"heuristic_png"}]
        ELSE IF r.b.success
          THEN [b |-> r.b, pos |-> r.pos, calls |-> {"parse_btw"}]
          ELSE [b |-> h.b, pos |-> h.pos,
                calls |-> {"parse_btw", "heuristic_png"}]

\* "Parse file": the layout function the options select.
main_parse(data, pos, heuristic, g, junk, stat_ok) ==
  IF heuristic
    THEN LET h == barmaid_heuristic_png(data, pos, g)
         IN  [b |-> h.b, pos |-> h.pos, calls |-> {"heuristic_png"}]
    ELSE LET r == barmaid_parse_btw(data, pos, g, junk, stat_ok)
         IN  [b |-> r.b, pos |-> r.pos, calls |-> {"parse_btw"}]

MainParse ==
  /\ pc = "parse"
  /\ LET r == main_parse(stream, cursor, op.heuristic, op.g, op.junk,
                         op.stat_ok)
     IN  /\ b' = r.b
         /\ cursor' = r.pos
         /\ op' = [op EXCEPT !.calls = @ \cup r.calls]
         /\ pc' = IF r.b.success THEN "open_png" ELSE "err_abort"
  /\ UNCHANGED <<stream, ret, out, written>>

\* "Open image files": fail is the index of the fopen that fails, -1 if
\* none does.
MainOpenPng ==
  /\ pc = "open_png"
  /\ \E fail \in {-1, 0, 1} :
       /\ fail >= 0 => op.png_str[fail + 1]
       /\ out' = Opened(out,
                   {f \in {"png0", "png1"} :
                      /\ op.png_str[IF f = "png0" THEN 1 ELSE 2]
                      /\ (fail < 0 \/ (f = "png0" /\ fail = 1))})
       /\ pc' = IF fail >= 0 THEN "err_abort" ELSE "open_rest"
  /\ UNCHANGED <<stream, cursor, op, ret, b, written>>

\* "Open container file", "Open prefix file" (not in heuristic mode).
MainOpenRest ==
  /\ pc = "open_rest"
  /\ \E fail \in {"none", "container", "prefix"} :
       /\ fail = "container" => (~op.heuristic /\ op.container_str)
       /\ fail = "prefix" => (~op.heuristic /\ op.prefix_str)
       /\ out' = Opened(out,
                   {f \in {"container", "prefix"} :
                      /\ ~op.heuristic
                      /\ (IF f = "container" THEN op.container_str
                                             ELSE op.prefix_str)
                      /\ fail # f
                      /\ ~(f = "prefix" /\ fail = "container")})
       /\ pc' = IF fail # "none" THEN "err_abort" ELSE "dump_png"
  /\ UNCHANGED <<stream, cursor, op, ret, b, written>>

\* "Dump preview images": room0, room1 say how much each file accepts.
MainDumpPng ==
  /\ pc = "dump_png"
  /\ \E room0 \in {-1, 0}, room1 \in {-1, 0} :
       LET d0 == barmaid_dump_file(stream, cursor, b.png_start[1],
                                   b.png_end[1], <<>>, room0)
           c0 == IF op.png_str[1] THEN d0.pos ELSE cursor
           ok0 == ~op.png_str[1] \/ d0.ret
           d1 == barmaid_dump_file(stream, c0, b.png_start[2],
                                   b.png_end[2], <<>>, room1)
           ok1 == ~op.png_str[2] \/ d1.ret
       IN  /\ out' = [f \in DOMAIN out |->
                        IF f = "png0" THEN d0.out
                        ELSE IF f = "png1" /\ ok0 THEN d1.out
                        ELSE out[f]]
           /\ cursor' = IF ok0 /\ op.png_str[2] THEN d1.pos ELSE c0
           /\ pc' = IF ok0 /\ ok1 THEN "dump_prefix" ELSE "err_abort"
  /\ UNCHANGED <<stream, op, ret, b, written>>

\* "Process container and prefix": the prefix.
MainDumpPrefix ==
  /\ pc = "dump_prefix"
  /\ \E room \in {-1, 0} :
       LET d == barmaid_dump_file(stream, fseek(cursor, 0), 0, b.prefix_end,
                                  <<>>, room)
           doit == ~op.heuristic /\ op.prefix_str
       IN  /\ out' = [f \in DOMAIN out |->
                        IF f = "prefix" /\ doit THEN d.out ELSE out[f]]
           /\ cursor' = IF doit THEN d.pos ELSE cursor
           /\ pc' = IF op.heuristic THEN "end"
                    ELSE IF doit /\ ~d.ret THEN "err_abort"
                    ELSE "dump_container"
  /\ UNCHANGED <<stream, op, ret, b, written>>

\* "Process container and prefix": the container.  A compressed container
\* goes to inf, the decompression function, which is not in barmaid.c:
\* what it writes is left open (the file stays as it is here) and inf_ok
\* is whether it returns 0.
MainDumpContainer ==
  /\ pc = "dump_container"
  /\ \E room \in {-1, 0}, inf_ok \in BOOLEAN :
       LET at == fseek(cursor, b.container_start)
           d  == barmaid_dump_file(stream, at, b.container_start,
                                   b.container_end, <<>>, room)
       IN  IF ~op.container_str
             THEN /\ pc' = "end"
                  /\ UNCHANGED <<out, cursor>>
             ELSE IF b.container_zlib
               THEN /\ pc' = IF inf_ok THEN "end" ELSE "err_abort"
                    /\ cursor' = at
                    /\ UNCHANGED out
               ELSE /\ pc' = IF d.ret THEN "end" ELSE "err_abort"
                    /\ cursor' = d.pos
                    /\ out' = [f \in DOMAIN out |->
                                 IF f = "container" THEN d.out ELSE out[f]]
  /\ UNCHANGED <<stream, op, ret, b, written>>

\* err_abort: status = 1;
MainAbort ==
  /\ pc = "err_abort"
  /\ ret' = 1
  /\ pc' = "end"
  /\ UNCHANGED <<stream, cursor, op, b, out, written>>

\* end: the files are closed and main returns status.
MainEnd ==
  /\ pc = "end"
  /\ pc' = "exited"
  /\ UNCHANGED <<stream, cursor, op, ret, b, out, written>>

NextMain ==
  \/ MainParse
  \/ MainOpenPng
  \/ MainOpenRest
  \/ MainDumpPng
  \/ MainDumpPrefix
  \/ MainDumpContainer
  \/ MainAbort
  \/ MainEnd

SpecMain == InitMain /\ [][NextMain]_vars

(***************************************************************************)
(* Properties of main (checked under SpecMain)                             *)
(***************************************************************************)

\* C15: without -s the heuristic scan is never called; and once
\* barmaid_parse_btw has failed, main has opened no output file, goes to
\* err_abort and returns status 1.
C15_NoFallback ==
  /\ ~op.heuristic => "heuristic_png" \notin op.calls
  /\ op.heuristic => "parse_btw" \notin op.calls
  /\ ("parse_btw" \in op.calls /\ ~b.success) =>
       /\ DOMAIN out = {}
       /\ pc \in {"err_abort", "end", "exited"}
       /\ pc = "exited" => ret = 1

\* main has returned 1 after a failed structured parse of a stream in
\* which the heuristic finds two images, with every output asked for.
C15_Witness ==
  /\ pc = "exited"
  /\ ~op.heuristic
  /\ "parse_btw" \in op.calls
  /\ ~b.success
  /\ ret = 1
  /\ op.png_str = <<TRUE, TRUE>>
  /\ op.prefix_str
  /\ op.container_str
  /\ barmaid_heuristic_png(stream, 0, 85).b.success

(***************************************************************************)
(* Truncated files: every prefix of a well-formed stream                   *)
(***************************************************************************)

WholeFiles ==
  {BtwStream(barmaid_btw_mseq_sof, Fill(3, 77), barmaid_btw_end_of_meta,
             pads, bl, <<Len(bl[1]), Len(bl[2])>>, cont) :
     pads \in PadCombos,
     bl \in {<<<<7, 7, 7>>, <<7, 7, 7, 7, 7>>>>, <<<<7, 7, 7>>, PngBlob>>},
     cont \in {<<0, 1, 9, 9>>, <<9, 9, 9>>}}

TruncStreams ==
  UNION {{SubSeq(w, 1, n) : n \in 0..Len(w)} : w \in WholeFiles}

InitTrunc == \E data \in TruncStreams : Idle(data, <<>>)

SpecTrunc == InitTrunc /\ [][ParseBtw]_vars

(***************************************************************************)
(* Properties of the parser on streams that end early (checked under       *)
(* SpecTrunc)                                                              *)
(***************************************************************************)

\* What the padding skipper returned at the prefix boundary of the last
\* parse, and whether the parse got that far (signature and marker found).
AtPrefixBoundary ==
  LET sig   == barmaid_is_btw(stream, op.from, op.junk)
      found == barmaid_find_seq(stream, sig.pos, Len(barmaid_btw_mseq_sof),
                                barmaid_btw_end_of_meta, op.g)
      sk    == barmaid_skip_padding(stream, found.pos,
                 found.ret + Len(barmaid_btw_end_of_meta), op.g)
  IN  [reached |-> sig.ret /\ found.ret >= 0, ret |-> sk.ret]

\* C16: when the padding skipper reports not-found at the prefix boundary,
\* after the first image or after the second, barmaid_parse_btw fails; the
\* negative result is what prefix_end, respectively container_start, holds.
C16_SkipperNotFound ==
  op.name = "parse_btw" =>
    /\ (AtPrefixBoundary.reached /\ AtPrefixBoundary.ret < 0) =>
         ~b.success /\ b.prefix_end = AtPrefixBoundary.ret
    /\ (b.png_end[1] >= 0 /\ SkipperAfter(1) < 0) => ~b.success
    /\ (b.png_end[2] >= 0 /\ SkipperAfter(2) < 0) =>
         ~b.success /\ b.container_start = SkipperAfter(2)

\* Both images lie in the stream, which ends in padding after the second:
\* the skipper found nothing, container_start is -1 and the parse failed.
C16_Witness ==
  /\ op.name = "parse_btw"
  /\ b.png_start[2] < b.png_end[2]
  /\ b.png_end[2] < Len(stream)
  /\ SkipperAfter(2) = -1
  /\ b.container_start = -1
  /\ ~b.success

\* The offset of the length field of image i (1 or 2) in the last parse,
\* -1 if the parse did not get to it: the skipper's result at the prefix
\* boundary, which prefix_end records, or after the first image.
LengthFieldAt(i) ==
  IF i = 1 THEN b.prefix_end
  ELSE IF b.png_end[1] >= 0 THEN SkipperAfter(1) ELSE -1

\* C17: if fewer than 4 bytes of the stream are left at the length field of
\* either image, barmaid_parse_btw fails.
C17_PartialLengthField ==
  op.name = "parse_btw" =>
    \A i \in 1..2 :
      (LengthFieldAt(i) >= 0 /\ LengthFieldAt(i) + 4 > Len(stream))
        => ~b.success

\* The stream ends 1..3 bytes into the second length field: the parser
\* decoded a length from what was read and failed afterwards.
C17_Witness ==
  /\ op.name = "parse_btw"
  /\ LengthFieldAt(2) >= 0
  /\ LengthFieldAt(2) < Len(stream)
  /\ LengthFieldAt(2) + 4 > Len(stream)
  /\ b.png_start[2] = LengthFieldAt(2) + 4
  /\ b.png_end[2] >= b.png_start[2]
  /\ ~b.success

(***************************************************************************)
(* The two loops, one iteration per step.  In this specification op is the *)
(* frame of the call in progress: its arguments and its locals.            *)
(***************************************************************************)

\* One iteration of the while(1) loop of barmaid_skip_padding.
\* Mutant: after a word of zeros the cursor is set back as on the two
\* return paths, so the same word is read again.
skip_padding_step_rereads(data, pos, buff) ==
  LET cur_pos == pos
      got     == fread(data, pos, 4)
      buff2   == Store(buff, 0, got)
  IN  IF Len(got) = 0
        THEN [done |-> TRUE, ret |-> -1, pos |-> cur_pos, buff |-> buff2]
        ELSE IF \E k \in 1..4 : buff2[k] # 0
          THEN [done |-> TRUE, ret |-> cur_pos, pos |-> cur_pos,
                buff |-> buff2]
          ELSE [done |-> FALSE, ret |-> 0, pos |-> cur_pos, buff |-> buff2]

skip_padding_step(data, pos, buff) ==
  LET cur_pos == pos
      got     == fread(data, pos, 4)
      buff2   == Store(buff, 0, got)
  IN  IF Len(got) = 0
        THEN [done |-> TRUE, ret |-> -1, pos |-> cur_pos, buff |-> buff2]
        ELSE IF \E k \in 1..4 : buff2[k] # 0
          THEN [done |-> TRUE, ret |-> cur_pos, pos |-> cur_pos,
                buff |-> buff2]
          ELSE [done |-> FALSE, ret |-> 0, pos |-> pos + Len(got),
                buff |-> buff2]

\* search_buff after the fread of chunk at index LONGEST_MAGIC_STRING and,
\* from the second chunk on, the memmove of the LONGEST_MAGIC_STRING bytes
\* at index BUFF_SIZ to the front (in this order, as in the loop).
refill(search_buff, chunk, chunk_count) ==
  LET read(k) == IF k > LONGEST_MAGIC_STRING
                      /\ k <= LONGEST_MAGIC_STRING + Len(chunk)
                   THEN chunk[k - LONGEST_MAGIC_STRING]
                   ELSE search_buff[k]
  IN  [k \in 1..Len(search_buff) |->
         IF chunk_count # 0 /\ k <= LONGEST_MAGIC_STRING
           THEN read(BUFF_SIZ + k)
           ELSE read(k)]

\* One evaluation of the while condition of barmaid_find_seq and, if a
\* chunk was read, one run of the loop body.  first and last are the first
\* and the last candidate position i handed to memcmp (last < first: none).
\* (The refilled buffer is bound as a value, buf, before it is searched.)
find_seq_step(data, pos, offset, seq, search_buff, chunk_count) ==
  LET chunk == fread(data, pos, BUFF_SIZ)
      read  == Len(chunk)
      i0    == IF chunk_count # 0 THEN 0 - LONGEST_MAGIC_STRING ELSE 0
      search(buf) ==
        LET hits == {i \in i0..(read - 1) :
                       memcmp0(buf, LONGEST_MAGIC_STRING + i, seq)}
            p    == offset + SetMin(hits) + chunk_count * BUFF_SIZ
        IN  IF hits # {}
              THEN [done |-> TRUE, ret |-> p, pos |-> fseek(pos + read, p),
                    search_buff |-> buf, chunk_count |-> chunk_count,
                    first |-> i0, last |-> SetMin(hits)]
              ELSE [done |-> FALSE, ret |-> 0, pos |-> pos + read,
                    search_buff |-> buf, chunk_count |-> chunk_count + 1,
                    first |-> i0, last |-> read - 1]
  IN  IF read = 0
        THEN [done |-> TRUE, ret |-> -1, pos |-> pos,
              search_buff |-> search_buff, chunk_count |-> chunk_count,
              first |-> 0, last |-> -1]
        ELSE CHOOSE r \in
               {search(buf) :
                  buf \in {refill(search_buff, chunk, chunk_count)}} : TRUE

\* The longest stream over PadBytes that is enumerated in full.
MaxLoopLen == 6

LoopPatterns ==
  {<<66>>, barmaid_btw_zlib, barmaid_btw_end_of_meta, LongPattern}

\* Every short stream over PadBytes; streams of zeros or fillers of about
\* one and two chunks, some with 1..3 bytes after the last whole word; and
\* a pattern across the first chunk boundary.
LoopStreams ==
  UNION {[1..n -> PadBytes] : n \in 0..MaxLoopLen}
  \cup {Fill(n, f) : n \in {BUFF_SIZ - 1, BUFF_SIZ, BUFF_SIZ + 1,
                            2 * BUFF_SIZ, 2 * BUFF_SIZ + 3},
                     f \in FillerBytes}
  \cup {Planted(BUFF_SIZ + Len(q) + t, 0, BUFF_SIZ - 1, q) :
          q \in LoopPatterns, t \in {0, BUFF_SIZ}}

InitLoops == \E data \in LoopStreams : Idle(data, <<>>)

\* barmaid_skip_padding up to its loop.
CallSkipPadding ==
  /\ pc = "start"
  /\ \E offset \in {-1, 0, 1, 4, Len(stream), Len(stream) + 1},
        g \in GarbageBytes :
       /\ op' = [name |-> "skip_padding", from |-> cursor,
                 offset |-> offset, g |-> g, buff |-> Fill(4, g)]
       /\ cursor' = IF offset >= 0 THEN fseek(cursor, offset) ELSE cursor
  /\ pc' = "skip_loop"
  /\ UNCHANGED <<stream, ret, b, out, written>>

SkipPaddingStep ==
  /\ pc = "skip_loop"
  /\ LET r == skip_padding_step(stream, cursor, op.buff)
     IN  /\ op' = [op EXCEPT !.buff = r.buff]
         /\ cursor' = r.pos
         /\ ret' = IF r.done THEN r.ret ELSE ret
         /\ pc' = IF r.done THEN "done" ELSE "skip_loop"
  /\ UNCHANGED <<stream, b, out, written>>

\* barmaid_find_seq up to its loop.  low and high are the lowest index of
\* search_buff that a memcmp has started at and the index one past the
\* last byte a memcmp has been told to compare (both LONGEST_MAGIC_STRING
\* before the first comparison).
CallFindSeq ==
  /\ pc = "start"
  /\ \E offset \in ScanOffsets, seq \in LoopPatterns, g \in {0, 1} :
       /\ op' = [name |-> "find_seq", from |-> cursor, offset |-> offset,
                 seq |-> seq, g |-> g,
                 search_buff |-> Fill(SearchMemLen, g), chunk_count |-> 0,
                 low |-> LONGEST_MAGIC_STRING,
                 high |-> LONGEST_MAGIC_STRING]
       /\ cursor' = IF offset >= 0 THEN fseek(cursor, offset) ELSE cursor
  /\ pc' = "scan_loop"
  /\ UNCHANGED <<stream, ret, b, out, written>>

FindSeqStep ==
  /\ pc = "scan_loop"
  /\ \E r \in {find_seq_step(stream, cursor, op.offset, op.seq,
                              op.search_buff, op.chunk_count)} :
     LET compared == r.first <= r.last
     IN  /\ op' = [op EXCEPT
                     !.search_buff = r.search_buff,
                     !.chunk_count = r.chunk_count,
                     !.low = IF compared
                               THEN min(@, LONGEST_MAGIC_STRING + r.first)
                               ELSE @,
                     !.high = IF compared
                                  /\ LONGEST_MAGIC_STRING + r.last
                                       + Len(op.seq) > @
                                THEN LONGEST_MAGIC_STRING + r.last
                                       + Len(op.seq)
                                ELSE @]
         /\ cursor' = r.pos
         /\ ret' = IF r.done THEN r.ret ELSE ret
         /\ pc' = IF r.done THEN "done" ELSE "scan_loop"
  /\ UNCHANGED <<stream, b, out, written>>

NextLoops ==
  \/ CallSkipPadding
  \/ SkipPaddingStep
  \/ CallFindSeq
  \/ FindSeqStep

SpecLoops == InitLoops /\ [][NextLoops]_vars

\* A call that has started goes on to its next statement.
SpecLoopsFair == SpecLoops /\ WF_vars(NextLoops)

\* The iterations, taken one by one, give what the functions give.
StepsAgree ==
  pc = "done" =>
    LET r == IF op.name = "skip_padding"
               THEN barmaid_skip_padding(stream, op.from, op.offset, op.g)
               ELSE barmaid_find_seq(stream, op.from, op.offset, op.seq,
                                     op.g)
    IN  ret = r.ret /\ cursor = r.pos

(***************************************************************************)
(* Properties of the loops (checked under SpecLoops and SpecLoopsFair)     *)
(***************************************************************************)

\* C19: every byte that barmaid_find_seq hands to memcmp lies inside
\* search_buff: each comparison starts at an index >= 0 and ends at or
\* before index BUFF_SIZ + LONGEST_MAGIC_STRING.
C19_CompareInsideBuffer ==
  (op.name = "find_seq" /\ pc \in {"scan_loop", "done"}) =>
    /\ 0 <= op.low
    /\ op.high <= BUFF_SIZ + LONGEST_MAGIC_STRING

\* C20: every call of barmaid_skip_padding and of barmaid_find_seq
\* returns, and until it does each iteration moves the cursor forward.
C20_LoopsTerminate ==
  /\ [][(pc \in {"skip_loop", "scan_loop"} /\ pc' # "done")
          => cursor' > cursor]_vars
  /\ <>(pc = "done")

\* barmaid_skip_padding has returned not-found on six zero bytes (a word
\* and 2 trailing bytes) read into a zeroed buffer.
C20_Witness ==
  /\ pc = "done"
  /\ op.name = "skip_padding"
  /\ op.offset = 0
  /\ op.g = 0
  /\ stream = <<0, 0, 0, 0, 0, 0>>
  /\ ret = -1

====
